---- MODULE Spec2Model ----
(***************************************************************************)
(* Model of the document chatbot:                                          *)
(*   - the chunking pipeline (src/src/embedding/chunker.py, TextChunker),  *)
(*   - retrieval and context assembly (src/src/retrieval/retriever.py),    *)
(*   - answer generation (src/app.py, src/src/llm/chat_completion.py),     *)
(*   - the embedding gateway (src/src/embedding/embedder.py),              *)
(*   - the Streamlit session (src/src/ui/streamlit_app.py).                *)
(*                                                                         *)
(* In the chunker a text is a sequence of one-character strings.  Offsets  *)
(* (start, end, start_pos, end_pos) are Python's 0-based offsets; TLA+     *)
(* sequences are 1-based, so the character at offset i is text[i + 1].     *)
(***************************************************************************)
EXTENDS Integers, Sequences, FiniteSets, TLC

VARIABLES
    op,             \* the entry point that was called
    pc,             \* position of the call
    chunk_size,     \* TextChunker.chunk_size
    chunk_overlap,  \* TextChunker.chunk_overlap
    metadata,       \* the metadata argument (empty mapping: None or {})
    text,           \* chunk_text's local `text`
    start,          \* chunk_text's local `start`
    end,            \* chunk_text's local `end` (of the last window)
    chunk_id,       \* chunk_text's local `chunk_id`
    chunks,         \* chunk_text's local `chunks`
    win_start,      \* the `start` of the last window (-1: no window yet)
    win_kind,       \* the branch of lines 48-57 that set the last window's end
    paragraphs,     \* chunk_by_paragraphs: the paragraphs not yet visited
    pchunks,        \* chunk_by_paragraphs' local `chunks`
    pchunk_id,      \* chunk_by_paragraphs' local `chunk_id`
    doc,            \* chunk_by_paragraphs' argument `text`
    \* DocumentRetriever (src/src/retrieval/retriever.py)
    self_top_k,     \* DocumentRetriever.top_k
    query,          \* the `query` argument
    top_k,          \* the `top_k` argument (<<>>: None, <<k>>: k)
    threshold,      \* the `threshold` argument, in hundredths
    calls,          \* the calls made to the embedder and the vector store
    outcome,        \* "none", "returned" or "raised"
    results,        \* what retrieve returned; the `results` argument
    filtered,       \* what retrieve_with_threshold returned
    max_length,     \* format_context's `max_length`
    context_parts,  \* format_context's local `context_parts`
    context,        \* what format_context returned
    sources,        \* what get_relevant_sources returned
    \* ChatbotEngine (src/app.py) and ChatBot (src/src/llm/chat_completion.py)
    question,       \* the `question` argument
    reply,          \* what the generator backend does when it is called
    answer,         \* the answer handed to the caller
    \* OpenAIEmbedder (src/src/embedding/embedder.py)
    texts,          \* embed_batch's `texts`; the texts of embed_chunks' `chunks`
    batch_size,     \* embed_batch's `batch_size`
    api_fails_at,   \* the request to the embeddings API that fails (0: none)
    embeddings,     \* what embed_batch returned
    embedded_chunks, \* what embed_chunks returned
    \* the Streamlit session (src/src/ui/streamlit_app.py)
    uploaded_files,  \* process_documents' argument
    fault,           \* the call of the last handler that raised ("none": none)
    all_chunks,      \* process_documents' local `all_chunks`
    processed_count, \* process_documents' local `processed_count`
    error_count,     \* process_documents' local `error_count`
    warnings,        \* the names of the files process_documents warned about
    store_calls,     \* the calls the last handler made to the vector store
    handled,         \* the last handler and how it ended
    vector_store,    \* st.session_state.vector_store
    retriever,       \* st.session_state.retriever
    chatbot,         \* st.session_state.chatbot
    documents_loaded, \* st.session_state.documents_loaded
    chat_history,    \* st.session_state.chat_history
    processed_files  \* st.session_state.processed_files

chunker_vars == <<chunk_size, chunk_overlap, metadata, text, start, end,
                  chunk_id, chunks, win_start, win_kind, paragraphs, pchunks,
                  pchunk_id, doc>>

retriever_vars == <<self_top_k, query, top_k, threshold, calls, outcome, results,
                    filtered, max_length, context_parts, context, sources>>

chat_vars == <<question, reply, answer>>

embedder_vars == <<texts, batch_size, api_fails_at, embeddings, embedded_chunks>>

session_vars == <<uploaded_files, fault, all_chunks, processed_count, error_count,
                  warnings, store_calls, handled, vector_store, retriever, chatbot,
                  documents_loaded, chat_history, processed_files>>

non_chunker_vars == <<retriever_vars, chat_vars, embedder_vars, session_vars>>
non_retriever_vars == <<chunker_vars, chat_vars, embedder_vars, session_vars>>

vars == <<op, pc, chunker_vars, retriever_vars, chat_vars, embedder_vars,
          session_vars>>

(***************************************************************************)
(* Bounds of the model.                                                    *)
(***************************************************************************)
MaxTextLen == 5
MaxChunkSize == 3
MaxRawLen == 6
MaxChunks == MaxTextLen + 2
LongLen == 1300

(***************************************************************************)
(* Characters.  "a" stands for any character that is neither whitespace    *)
(* nor sentence punctuation, "\t" for whitespace other than space and      *)
(* newline.                                                                *)
(***************************************************************************)
Whitespace == {" ", "\n", "\t"}
SentenceEnd == {".", "!", "?"}
SentenceLookback == 200
CHUNK_SIZE == 1000
CHUNK_OVERLAP == 200

Alphabet == {"a", ".", " ", "\n"}
RawAlphabet == {"a", ".", " ", "\n", "\t"}

isspace(c) == c \in Whitespace

Max(S) == CHOOSE x \in S : \A y \in S : y <= x
Min(S) == CHOOSE x \in S : \A y \in S : x <= y

TextsUpTo(A, n) == UNION {[1..k -> A] : k \in 0..n}

\* text[a:b] for 0 <= a and 0 <= b
Slice(s, a, b) == SubSeq(s, a + 1, IF b < Len(s) THEN b ELSE Len(s))

\* the subsequence of s at the indices in I
Select(s, I) ==
    LET idx == [i \in 1..Len(s) |-> i]
        sel == SelectSeq(idx, LAMBDA i : i \in I)
    IN  [k \in 1..Len(sel) |-> s[sel[k]]]

\* str.strip()
strip(s) ==
    IF \A i \in 1..Len(s) : isspace(s[i])
    THEN <<>>
    ELSE LET first == CHOOSE i \in 1..Len(s) :
                          ~isspace(s[i]) /\ \A j \in 1..(i - 1) : isspace(s[j])
             last == CHOOSE i \in 1..Len(s) :
                         ~isspace(s[i]) /\ \A j \in (i + 1)..Len(s) : isspace(s[j])
         IN  SubSeq(s, first, last)

(***************************************************************************)
(* TextChunker._clean_text                                                 *)
(***************************************************************************)
\* re.sub(r'\n{3,}', '\n\n', text): of a run of newlines, the first two stay
KeepNewline(s, i) ==
    ~(s[i] = "\n" /\ i >= 3 /\ s[i - 1] = "\n" /\ s[i - 2] = "\n")

\* re.sub(r' {2,}', ' ', text): of a run of spaces, the first stays
KeepSpace(s, i) == ~(s[i] = " " /\ i >= 2 /\ s[i - 1] = " ")

\* [line.strip() for line in text.split('\n')], joined by '\n' again
LineFirst(s, i) == Max({0} \cup {j \in 1..(i - 1) : s[j] = "\n"}) + 1
LineLast(s, i) == Min({Len(s) + 1} \cup {j \in (i + 1)..Len(s) : s[j] = "\n"}) - 1
KeepInLine(s, i) ==
    \/ s[i] = "\n"
    \/ ~isspace(s[i])
    \/ /\ \E j \in LineFirst(s, i)..(i - 1) : ~isspace(s[j])
       /\ \E j \in (i + 1)..LineLast(s, i) : ~isspace(s[j])

clean_text(s) ==
    LET s1 == Select(s, {i \in 1..Len(s) : KeepNewline(s, i)})
        s2 == Select(s1, {i \in 1..Len(s1) : KeepSpace(s1, i)})
        s3 == Select(s2, {i \in 1..Len(s2) : KeepInLine(s2, i)})
    IN  strip(s3)

(***************************************************************************)
(* TextChunker._find_sentence_boundary and _find_word_boundary             *)
(***************************************************************************)
find_sentence_boundary(t, s, e) ==
    LET search_start == IF s > e - SentenceLookback THEN s ELSE e - SentenceLookback
        search_text == Slice(t, search_start, e)
        hits == {i \in 0..(Len(search_text) - 1) :
                    /\ search_text[i + 1] \in SentenceEnd
                    /\ \/ i + 1 >= Len(search_text)
                       \/ isspace(search_text[i + 2])}
    IN  IF hits = {} THEN -1 ELSE search_start + Max(hits) + 1

\* mutant: the scan also visits offset s (range(end - 1, start - 1, -1))
find_word_boundary_from_start(t, s, e) ==
    LET hits == {i \in s..(e - 1) : isspace(t[i + 1])}
    IN  IF hits = {} THEN -1 ELSE Max(hits) + 1

find_word_boundary(t, s, e) ==
    LET hits == {i \in (s + 1)..(e - 1) : isspace(t[i + 1])}
    IN  IF hits = {} THEN -1 ELSE Max(hits) + 1

(***************************************************************************)
(* One window of chunk_text's while loop (lines 45-57): its end.           *)
(***************************************************************************)
window_end(t, s, size) ==
    LET e == s + size
    IN  IF e < Len(t)
        THEN LET sentence_end == find_sentence_boundary(t, s, e)
             IN  IF sentence_end > s
                 THEN sentence_end
                 ELSE LET word_end == find_word_boundary(t, s, e)
                      IN  IF word_end > s THEN word_end ELSE e
        ELSE e

\* the branch that window_end takes
window_kind(t, s, size) ==
    LET e == s + size
    IN  IF e < Len(t)
        THEN IF find_sentence_boundary(t, s, e) > s
             THEN "sentence"
             ELSE IF find_word_boundary(t, s, e) > s THEN "word" ELSE "cut"
        ELSE "last"

\* mutant: the window's text is not trimmed
window_text_unstripped(t, s, e) == Slice(t, s, e)

\* line 60: the text of the window
window_text(t, s, e) == strip(Slice(t, s, e))

\* mutant: every window takes an id, emitted or not
next_chunk_id_always(ct, id) == id + 1

\* line 75: an emitted chunk takes the next id
next_chunk_id(ct, id) == IF ct # <<>> THEN id + 1 ELSE id

\* dict.update: the keys of md replace those of d
update(d, md) ==
    [k \in (DOMAIN d) \cup (DOMAIN md) |-> IF k \in DOMAIN md THEN md[k] ELSE d[k]]

\* the record chunk_text builds for a window (lines 63-72)
chunk_data(ct, id, s, e, md) ==
    LET d == [text |-> ct, chunk_id |-> id, start_pos |-> s, end_pos |-> e]
    IN  IF DOMAIN md # {} THEN update(d, md) ELSE d

\* mutant: the forced advance skips the character at `end`
next_start_skip(s, e, overlap, cs) ==
    LET s1 == e - overlap
    IN  IF (IF cs # <<>> THEN s1 <= cs[Len(cs)].start_pos ELSE FALSE)
        THEN e + 1
        ELSE s1

\* the start of the next window (lines 78-82); cs is `chunks` after the append
next_start(s, e, overlap, cs) ==
    LET s1 == e - overlap
    IN  IF (IF cs # <<>> THEN s1 <= cs[Len(cs)].start_pos ELSE FALSE)
        THEN e
        ELSE s1

(***************************************************************************)
(* Inputs.                                                                 *)
(***************************************************************************)
NoMetadata == [k \in {} |-> 0]
BigPos == 99
OtherId == 7

Metadatas ==
    <<NoMetadata,
      [filename |-> "doc.txt"],
      [chunk_id |-> OtherId],
      [start_pos |-> BigPos],
      [start_pos |-> 0],
      [text |-> <<>>],
      [end_pos |-> 0]>>

Configs == {c \in (1..MaxChunkSize) \X (0..MaxChunkSize) : c[2] < c[1]}

\* Long texts for the configured chunk size: LongLen characters "a", but for
\* a sentence end q at offset p followed by the character f, and, when w, a
\* space early in the first window.
LongOffsets ==
    {CHUNK_SIZE - SentenceLookback - 1, CHUNK_SIZE - SentenceLookback,
     CHUNK_SIZE - 2, CHUNK_SIZE - 1}

LongText(p, q, f, w) ==
    [i \in 1..LongLen |->
        IF i = p + 1 THEN q
        ELSE IF i = p + 2 THEN f
        ELSE IF w /\ i = SentenceLookback THEN " "
        ELSE "a"]

LongTexts ==
    {LongText(p, q, f, w) :
        p \in LongOffsets, q \in SentenceEnd, f \in {"a", " "}, w \in BOOLEAN}

(***************************************************************************)
(* chunk_text                                                              *)
(***************************************************************************)
\* lines 33-41: the empty-input return, the cleaning, the locals
ChunkTextEnter ==
    /\ pc = "call"
    /\ IF text = <<>> \/ strip(text) = <<>>
       THEN /\ pc' = "done"
            /\ text' = text
       ELSE /\ pc' = "loop"
            /\ text' = clean_text(text)
    /\ start' = 0
    /\ end' = 0
    /\ chunk_id' = 0
    /\ chunks' = <<>>
    /\ win_start' = -1
    /\ win_kind' = "none"
    /\ UNCHANGED <<op, doc, chunk_size, chunk_overlap, metadata,
                   paragraphs, pchunks, pchunk_id>>
    /\ UNCHANGED non_chunker_vars

\* lines 43-82: one iteration of the while loop
ChunkTextIterate ==
    /\ pc = "loop"
    /\ start < Len(text)
    /\ Len(chunks) < MaxChunks
    /\ \E e \in {window_end(text, start, chunk_size)} :
       \E ct \in {window_text(text, start, e)} :
       LET cs == IF ct # <<>>
                 THEN Append(chunks, chunk_data(ct, chunk_id, start, e, metadata))
                 ELSE chunks
       IN  /\ end' = e
           /\ chunks' = cs
           /\ chunk_id' = next_chunk_id(ct, chunk_id)
           /\ start' = next_start(start, e, chunk_overlap, cs)
    /\ win_start' = start
    /\ win_kind' = window_kind(text, start, chunk_size)
    /\ UNCHANGED <<op, doc, pc, chunk_size, chunk_overlap, metadata, text,
                   paragraphs, pchunks, pchunk_id>>
    /\ UNCHANGED non_chunker_vars

\* line 43 false, line 84: the loop ends and chunk_text returns `chunks`
ChunkTextReturn ==
    /\ pc = "loop"
    /\ ~(start < Len(text))
    /\ pc' = "done"
    /\ UNCHANGED <<op, doc, chunk_size, chunk_overlap, metadata, text, start, end,
                   chunk_id, chunks, win_start, win_kind,
                   paragraphs, pchunks, pchunk_id>>
    /\ UNCHANGED non_chunker_vars

\* lines 43-84 as a function: the chunks the loop returns when entered with
\* `start` = s, `chunk_id` = id and `chunks` = cs (n bounds the iterations)
RECURSIVE chunk_text_loop(_, _, _, _, _, _, _, _)
chunk_text_loop(t, s, id, cs, size, overlap, md, n) ==
    IF ~(s < Len(t)) \/ n = 0
    THEN cs
    ELSE LET e == window_end(t, s, size)
             ct == window_text(t, s, e)
             cs2 == IF ct # <<>>
                    THEN Append(cs, chunk_data(ct, id, s, e, md))
                    ELSE cs
         IN  chunk_text_loop(t, next_start(s, e, overlap, cs2), next_chunk_id(ct, id),
                             cs2, size, overlap, md, n - 1)

\* lines 22-84: the value chunk_text returns
chunk_text_result(t, size, overlap, md) ==
    IF t = <<>> \/ strip(t) = <<>>
    THEN <<>>
    ELSE chunk_text_loop(clean_text(t), 0, 0, <<>>, size, overlap, md, Len(t) + 1)

(***************************************************************************)
(* chunk_by_paragraphs                                                     *)
(***************************************************************************)
\* mutant: text.split('\n'), a paragraph per line
RECURSIVE split_paragraphs_lines(_)
split_paragraphs_lines(s) ==
    LET hits == {i \in 1..Len(s) : s[i] = "\n"}
    IN  IF hits = {}
        THEN <<s>>
        ELSE <<SubSeq(s, 1, Min(hits) - 1)>>
                 \o split_paragraphs_lines(SubSeq(s, Min(hits) + 1, Len(s)))

\* text.split('\n\n')
RECURSIVE split_paragraphs(_)
split_paragraphs(s) ==
    LET hits == {i \in 1..(Len(s) - 1) : s[i] = "\n" /\ s[i + 1] = "\n"}
    IN  IF hits = {}
        THEN <<s>>
        ELSE <<SubSeq(s, 1, Min(hits) - 1)>>
                 \o split_paragraphs(SubSeq(s, Min(hits) + 2, Len(s)))

\* the record chunk_by_paragraphs builds for a small paragraph (lines 144-149)
para_chunk_data(para, id, md) ==
    LET d == [text |-> para, chunk_id |-> id]
    IN  IF DOMAIN md # {} THEN update(d, md) ELSE d

\* lines 155-158: the sub-chunks of a large paragraph, renumbered from id
renumber(sub_chunks, id) ==
    [i \in 1..Len(sub_chunks) |-> [sub_chunks[i] EXCEPT !["chunk_id"] = id + i - 1]]

\* lines 133-135
ParagraphsEnter ==
    /\ pc = "pcall"
    /\ paragraphs' = split_paragraphs(doc)
    /\ pchunks' = <<>>
    /\ pchunk_id' = 0
    /\ pc' = "para"
    /\ UNCHANGED <<op, doc, chunk_size, chunk_overlap, metadata, text, start, end,
                   chunk_id, chunks, win_start, win_kind>>
    /\ UNCHANGED non_chunker_vars

\* lines 137-154: one paragraph, up to the call of chunk_text for a large one
ParagraphsIterate ==
    /\ pc = "para"
    /\ paragraphs # <<>>
    /\ paragraphs' = Tail(paragraphs)
    /\ LET para == strip(Head(paragraphs))
       IN  IF para = <<>>
           THEN UNCHANGED <<pc, text, pchunks, pchunk_id>>
           ELSE IF Len(para) <= chunk_size
           THEN /\ pchunks' = Append(pchunks, para_chunk_data(para, pchunk_id, metadata))
                /\ pchunk_id' = pchunk_id + 1
                /\ UNCHANGED <<pc, text>>
           ELSE /\ text' = para
                /\ pc' = "call"
                /\ UNCHANGED <<pchunks, pchunk_id>>
    /\ UNCHANGED <<op, doc, chunk_size, chunk_overlap, metadata, start, end,
                   chunk_id, chunks, win_start, win_kind>>
    /\ UNCHANGED non_chunker_vars

\* lines 154-158: chunk_text has returned the sub-chunks of a large paragraph
ParagraphsMerge ==
    /\ op = "chunk_by_paragraphs"
    /\ pc = "done"
    /\ pchunks' = pchunks \o renumber(chunks, pchunk_id)
    /\ pchunk_id' = pchunk_id + Len(chunks)
    /\ pc' = "para"
    /\ UNCHANGED <<op, doc, chunk_size, chunk_overlap, metadata, text, start, end,
                   chunk_id, chunks, win_start, win_kind, paragraphs>>
    /\ UNCHANGED non_chunker_vars

\* line 160
ParagraphsReturn ==
    /\ pc = "para"
    /\ paragraphs = <<>>
    /\ pc' = "pdone"
    /\ UNCHANGED <<op, doc, chunk_size, chunk_overlap, metadata, text, start, end,
                   chunk_id, chunks, win_start, win_kind,
                   paragraphs, pchunks, pchunk_id>>
    /\ UNCHANGED non_chunker_vars

(***************************************************************************)
(* The components a specification does not exercise stay as constructed.   *)
(***************************************************************************)
TOP_K_RESULTS == 10

ChunkerIdle ==
    /\ chunk_size = CHUNK_SIZE
    /\ chunk_overlap = CHUNK_OVERLAP
    /\ metadata = NoMetadata
    /\ text = <<>>
    /\ start = 0
    /\ end = 0
    /\ chunk_id = 0
    /\ chunks = <<>>
    /\ win_start = -1
    /\ win_kind = "none"
    /\ paragraphs = <<>>
    /\ pchunks = <<>>
    /\ pchunk_id = 0
    /\ doc = <<>>

RetrieverIdle ==
    /\ self_top_k = TOP_K_RESULTS
    /\ query = ""
    /\ top_k = <<>>
    /\ threshold = 0
    /\ calls = <<>>
    /\ outcome = "none"
    /\ results = <<>>
    /\ filtered = <<>>
    /\ max_length = 0
    /\ context_parts = <<>>
    /\ context = ""
    /\ sources = <<>>

NoReply == [kind |-> "none", text |-> ""]

ChatIdle ==
    /\ question = ""
    /\ reply = NoReply
    /\ answer = ""

EmbedderIdle ==
    /\ texts = <<>>
    /\ batch_size = 0
    /\ api_fails_at = 0
    /\ embeddings = <<>>
    /\ embedded_chunks = <<>>

NoHandler == [fn |-> "none", completed |-> TRUE]

\* no handler has run: no locals, no calls
HandlerIdle ==
    /\ uploaded_files = <<>>
    /\ fault = "none"
    /\ all_chunks = <<>>
    /\ processed_count = 0
    /\ error_count = 0
    /\ warnings = <<>>
    /\ store_calls = <<>>
    /\ handled = NoHandler

\* streamlit_app.py lines 57-68: initialize_session_state
initialize_session_state ==
    /\ vector_store = "None"
    /\ retriever = "None"
    /\ chatbot = "None"
    /\ chat_history = <<>>
    /\ documents_loaded = FALSE
    /\ processed_files = <<>>

SessionIdle == HandlerIdle /\ initialize_session_state

(***************************************************************************)
(* Calls of chunk_text and chunk_by_paragraphs on every short text.        *)
(***************************************************************************)
Init ==
    /\ \/ /\ op \in {"chunk_text", "chunk_by_paragraphs"}
          /\ \E c \in Configs : chunk_size = c[1] /\ chunk_overlap = c[2]
          /\ \E m \in DOMAIN Metadatas : metadata = Metadatas[m]
          /\ text \in TextsUpTo(Alphabet, MaxTextLen)
       \/ /\ op = "chunk_text"
          /\ chunk_size = CHUNK_SIZE
          /\ chunk_overlap = CHUNK_OVERLAP
          /\ metadata = NoMetadata
          /\ text \in LongTexts
    /\ pc = IF op = "chunk_text" THEN "call" ELSE "pcall"
    /\ start = 0
    /\ end = 0
    /\ chunk_id = 0
    /\ chunks = <<>>
    /\ win_start = -1
    /\ win_kind = "none"
    /\ paragraphs = <<>>
    /\ pchunks = <<>>
    /\ pchunk_id = 0
    /\ doc = IF op = "chunk_by_paragraphs" THEN text ELSE <<>>
    /\ RetrieverIdle
    /\ ChatIdle
    /\ EmbedderIdle
    /\ SessionIdle

Next ==
    \/ ChunkTextEnter
    \/ ChunkTextIterate
    \/ ChunkTextReturn
    \/ ParagraphsEnter
    \/ ParagraphsIterate
    \/ ParagraphsMerge
    \/ ParagraphsReturn

Spec == Init /\ [][Next]_vars

(***************************************************************************)
(* Calls of _clean_text on every raw text.                                 *)
(***************************************************************************)
CleanText ==
    /\ pc = "clean"
    /\ text' = clean_text(text)
    /\ pc' = "cleaned"
    /\ UNCHANGED <<op, doc, chunk_size, chunk_overlap, metadata, start, end,
                   chunk_id, chunks, win_start, win_kind,
                   paragraphs, pchunks, pchunk_id>>
    /\ UNCHANGED non_chunker_vars

InitClean ==
    /\ op = "_clean_text"
    /\ pc = "clean"
    /\ chunk_size = 1
    /\ chunk_overlap = 0
    /\ metadata = NoMetadata
    /\ text \in TextsUpTo(RawAlphabet, MaxRawLen)
    /\ start = 0
    /\ end = 0
    /\ chunk_id = 0
    /\ chunks = <<>>
    /\ win_start = -1
    /\ win_kind = "none"
    /\ paragraphs = <<>>
    /\ pchunks = <<>>
    /\ pchunk_id = 0
    /\ doc = <<>>
    /\ RetrieverIdle
    /\ ChatIdle
    /\ EmbedderIdle
    /\ SessionIdle

NextClean == CleanText

SpecClean == InitClean /\ [][NextClean]_vars

(***************************************************************************)
(* DocumentRetriever (src/src/retrieval/retriever.py).                     *)
(*                                                                         *)
(* The retriever's strings (queries, filenames, result texts, the context) *)
(* are strings; a score is a number of hundredths (95 stands for 0.95).    *)
(* A result is a mapping with some of the keys text, filename and score.   *)
(***************************************************************************)
MaxResults == 3

DEFAULT_THRESHOLD == 70
DEFAULT_MAX_LENGTH == 4000
TruncateMin == 100
Ellipsis == "...\n"

RECURSIVE Repeat(_, _)
Repeat(c, n) ==
    IF n = 0 THEN ""
    ELSE IF n % 2 = 1 THEN c \o Repeat(c, n - 1)
    ELSE LET half == Repeat(c, n \div 2) IN half \o half

ShortText == Repeat("x", 3)
LongText120 == Repeat("y", 120)
\* two excerpts of this text leave less than TruncateMin of DEFAULT_MAX_LENGTH
LongText1930 == Repeat("z", 1930)

\* the results a vector store may hand back
Results ==
    [text : {ShortText, LongText120}, filename : {"A.txt", "B.txt"}, score : {90, 95}]
        \cup {[text |-> ShortText, score |-> 90],
              [text |-> ShortText, filename |-> "B.txt"],
              [filename |-> "A.txt", score |-> 95],
              [text |-> LongText1930, filename |-> "A.txt", score |-> 95]}

ResultLists == UNION {[1..n -> Results] : n \in 0..MaxResults}

Queries == {"", " ", " \n\t", "q", " q "}
TopKs == {<<>>, <<0>>, <<1>>, <<2>>}
Thresholds == {DEFAULT_THRESHOLD, 90, 95}
MaxLengths == {TruncateMin, TruncateMin + 1, 140, 141, DEFAULT_MAX_LENGTH}

\* x or default, for an optional number
Or(x, default) == IF x # <<>> /\ x[1] # 0 THEN x[1] ELSE default

\* mutant: not query
blank_empty(q) == q = ""

\* not query or not query.strip()
blank(q) == \A i \in 1..Len(q) : isspace(SubSeq(q, i, i))

\* result.get(key, default)
get(r, key, default) == IF key \in DOMAIN r THEN r[key] ELSE default

\* lines 38-49: retrieve(q, k), with the embedder and the vector store
\* answering or raising
retrieve(q, k) ==
    IF blank(q)
    THEN /\ calls' = calls
         /\ results' = <<>>
         /\ outcome' = "returned"
    ELSE \E embedded \in BOOLEAN, searched \in BOOLEAN, hits \in ResultLists :
           /\ embedded \/ ~searched
           /\ (embedded /\ searched) \/ hits = <<>>
           /\ calls' = calls \o <<[fn |-> "embed_text", text |-> q, raised |-> ~embedded]>>
                  \o (IF embedded
                      THEN <<[fn |-> "search", top_k |-> Or(k, self_top_k)]>>
                      ELSE <<>>)
           /\ results' = hits
           /\ outcome' = IF embedded /\ searched THEN "returned" ELSE "raised"

Retrieve ==
    /\ op = "retrieve"
    /\ pc = "rcall"
    /\ retrieve(query, top_k)
    /\ pc' = "rdone"
    /\ UNCHANGED <<op, self_top_k, query, top_k, threshold, filtered, max_length,
                   context_parts, context, sources>>
    /\ UNCHANGED non_retriever_vars

\* mutant: a strict comparison
above_threshold_strict(r, th) == get(r, "score", 0) > th

\* line 66: r.get('score', 0) >= threshold
above_threshold(r, th) == get(r, "score", 0) >= th

\* line 66: the list comprehension
filter_results(rs, th) == Select(rs, {i \in 1..Len(rs) : above_threshold(rs[i], th)})

\* lines 63-68
RetrieveWithThreshold ==
    /\ op = "retrieve_with_threshold"
    /\ pc = "rcall"
    /\ retrieve(query, top_k)
    /\ filtered' = IF outcome' = "returned" THEN filter_results(results', threshold)
                   ELSE <<>>
    /\ pc' = "rdone"
    /\ UNCHANGED <<op, self_top_k, query, top_k, threshold, max_length,
                   context_parts, context, sources>>
    /\ UNCHANGED non_retriever_vars

InitRetrieve ==
    /\ op \in {"retrieve", "retrieve_with_threshold"}
    /\ pc = "rcall"
    /\ ChunkerIdle
    /\ self_top_k \in {Or(<<>>, TOP_K_RESULTS), Or(<<3>>, TOP_K_RESULTS)}
    /\ query \in Queries
    /\ top_k \in TopKs
    /\ threshold \in IF op = "retrieve" THEN {0} ELSE Thresholds
    /\ calls = <<>>
    /\ outcome = "none"
    /\ results = <<>>
    /\ filtered = <<>>
    /\ max_length = 0
    /\ context_parts = <<>>
    /\ context = ""
    /\ sources = <<>>
    /\ ChatIdle
    /\ EmbedderIdle
    /\ SessionIdle

NextRetrieve ==
    \/ Retrieve
    \/ RetrieveWithThreshold

SpecRetrieve == InitRetrieve /\ [][NextRetrieve]_vars

(***************************************************************************)
(* format_context and get_relevant_sources                                 *)
(***************************************************************************)
\* f"{score:.2f}" of a score of h hundredths
score_2f(h) ==
    ToString(h \div 100) \o "." \o ToString((h % 100) \div 10) \o ToString(h % 10)

\* lines 88-93: the excerpt of the result of rank i
format_chunk(r, i) ==
    "[Source " \o ToString(i) \o ": " \o get(r, "filename", "Unknown")
        \o " (relevance: " \o score_2f(get(r, "score", 0)) \o ")]\n"
        \o get(r, "text", "") \o "\n"

\* mutant: a budget of 100 characters is enough
should_truncate_at(remaining) == remaining >= TruncateMin

\* line 99
should_truncate(remaining) == remaining > TruncateMin

\* mutant: a result that does not fit is skipped and
\* the packing goes on
RECURSIVE pack_context_skip(_, _, _, _, _)
pack_context_skip(rs, i, parts, current_length, maxlen) ==
    IF i > Len(rs)
    THEN parts
    ELSE LET chunk == format_chunk(rs[i], i)
         IN  IF current_length + Len(chunk) > maxlen
             THEN pack_context_skip(rs, i + 1, parts, current_length, maxlen)
             ELSE pack_context_skip(rs, i + 1, Append(parts, chunk),
                                    current_length + Len(chunk), maxlen)

\* lines 84-105: the loop from the result of rank i on
RECURSIVE pack_context(_, _, _, _, _)
pack_context(rs, i, parts, current_length, maxlen) ==
    IF i > Len(rs)
    THEN parts
    ELSE LET chunk == format_chunk(rs[i], i)
         IN  IF current_length + Len(chunk) > maxlen
             THEN LET remaining == maxlen - current_length
                  IN  IF should_truncate(remaining)
                      THEN Append(parts, SubSeq(chunk, 1, remaining) \o Ellipsis)
                      ELSE parts
             ELSE pack_context(rs, i + 1, Append(parts, chunk),
                               current_length + Len(chunk), maxlen)

\* "\n".join(parts)
RECURSIVE join(_)
join(parts) ==
    IF parts = <<>> THEN ""
    ELSE IF Len(parts) = 1 THEN parts[1]
    ELSE parts[1] \o "\n" \o join(Tail(parts))

\* lines 81-107
FormatContext ==
    /\ op = "format_context"
    /\ pc = "fcall"
    /\ context_parts' = IF results = <<>> THEN <<>>
                        ELSE pack_context(results, 1, <<>>, 0, max_length)
    /\ context' = join(context_parts')
    /\ pc' = "fdone"
    /\ UNCHANGED <<op, self_top_k, query, top_k, threshold, calls, outcome, results,
                   filtered, max_length, sources>>
    /\ UNCHANGED non_retriever_vars

\* the code points of the characters of the filenames
Ord == [c \in {".", "A", "B", "t", "x"} |->
            CASE c = "." -> 46 [] c = "A" -> 65 [] c = "B" -> 66
              [] c = "t" -> 116 [] c = "x" -> 120]

\* a < b for strings
RECURSIVE str_less(_, _)
str_less(a, b) ==
    IF b = "" THEN FALSE
    ELSE IF a = "" THEN TRUE
    ELSE IF SubSeq(a, 1, 1) # SubSeq(b, 1, 1)
    THEN Ord[SubSeq(a, 1, 1)] < Ord[SubSeq(b, 1, 1)]
    ELSE str_less(SubSeq(a, 2, Len(a)), SubSeq(b, 2, Len(b)))

\* sorted(list(S)) for a set of strings
RECURSIVE sorted(_)
sorted(S) ==
    IF S = {} THEN <<>>
    ELSE LET m == CHOOSE x \in S : \A y \in S : x = y \/ str_less(x, y)
         IN  <<m>> \o sorted(S \ {m})

\* mutant: the filenames in rank order
get_relevant_sources_ranked(rs) ==
    LET named == Select(rs, {i \in 1..Len(rs) : get(rs[i], "filename", "") # ""})
    IN  [i \in 1..Len(named) |-> named[i].filename]

\* lines 119-125
get_relevant_sources(rs) ==
    sorted({get(rs[i], "filename", "") : i \in 1..Len(rs)} \ {""})

GetRelevantSources ==
    /\ op = "get_relevant_sources"
    /\ pc = "fcall"
    /\ sources' = get_relevant_sources(results)
    /\ pc' = "fdone"
    /\ UNCHANGED <<op, self_top_k, query, top_k, threshold, calls, outcome, results,
                   filtered, max_length, context_parts, context>>
    /\ UNCHANGED non_retriever_vars

InitContext ==
    /\ op \in {"format_context", "get_relevant_sources"}
    /\ pc = "fcall"
    /\ ChunkerIdle
    /\ self_top_k = TOP_K_RESULTS
    /\ query = ""
    /\ top_k = <<>>
    /\ threshold = 0
    /\ calls = <<>>
    /\ outcome = "none"
    /\ results \in ResultLists
    /\ filtered = <<>>
    /\ max_length \in IF op = "format_context" THEN MaxLengths ELSE {0}
    /\ context_parts = <<>>
    /\ context = ""
    /\ sources = <<>>
    /\ ChatIdle
    /\ EmbedderIdle
    /\ SessionIdle

NextContext ==
    \/ FormatContext
    \/ GetRelevantSources

SpecContext == InitContext /\ [][NextContext]_vars

(***************************************************************************)
(* ChatbotEngine.get_answer (src/app.py).                                  *)
(*                                                                         *)
(* The backend (the retrieval chain) either raises, or answers with a      *)
(* response that has an `answer` text or none.                             *)
(***************************************************************************)
ANSWER_FALLBACK == "I couldn't find that info in the uploaded documents."
MinAnswerLen == 10

uncertainty_phrases ==
    {"i don't know", "not mentioned", "no information", "cannot find",
     "not found", "doesn't say", "not provided"}

UpperCase == "ABCDEFGHIJKLMNOPQRSTUVWXYZ"
LowerCase == "abcdefghijklmnopqrstuvwxyz"

\* c.lower() for one character
lower(c) ==
    IF \E i \in 1..Len(UpperCase) : SubSeq(UpperCase, i, i) = c
    THEN LET i == CHOOSE i \in 1..Len(UpperCase) : SubSeq(UpperCase, i, i) = c
         IN  SubSeq(LowerCase, i, i)
    ELSE c

\* str.strip() of a string
str_strip(a) ==
    LET kept == {i \in 1..Len(a) : ~isspace(SubSeq(a, i, i))}
    IN  IF kept = {} THEN "" ELSE SubSeq(a, Min(kept), Max(kept))

\* mutant: phrase in answer
contains_exact(a, phrase) ==
    \E i \in 1..(Len(a) - Len(phrase) + 1) : SubSeq(a, i, i + Len(phrase) - 1) = phrase

\* phrase in answer.lower()
contains_lower(a, phrase) ==
    \E i \in 1..(Len(a) - Len(phrase) + 1) :
        \A j \in 1..Len(phrase) :
            lower(SubSeq(a, i + j - 1, i + j - 1)) = SubSeq(phrase, j, j)

\* lines 144-161: what get_answer returns for the chain's answer a
checked_answer(a) ==
    IF a = "" \/ Len(str_strip(a)) < MinAnswerLen
    THEN ANSWER_FALLBACK
    ELSE IF \E phrase \in uncertainty_phrases : contains_lower(a, phrase)
    THEN ANSWER_FALLBACK
    ELSE a

\* lines 139-164
GetAnswer ==
    /\ op = "get_answer"
    /\ pc = "acall"
    /\ answer' = IF reply.kind = "raised"
                 THEN ANSWER_FALLBACK
                 ELSE checked_answer(IF reply.kind = "answer" THEN reply.text ELSE "")
    /\ pc' = "adone"
    /\ UNCHANGED <<op, question, reply>>
    /\ UNCHANGED <<chunker_vars, retriever_vars, embedder_vars, session_vars>>

\* generated answers: short ones, ones with an uncertainty phrase in either
\* case, near misses and plain ones, with and without surrounding whitespace
AnswerCores ==
    {"", "Yes.", "123456789", "1234567890", Repeat("z", 50),
     "I don't know", "I DON'T KNOW.", "It is not mentioned here.",
     "There is No Information.", "I cannot find the date.",
     "The file was NOT FOUND.", "The text doesn't say so.",
     "That was not provided.", "It does not mention a date.",
     "Paris is the capital of France."}

Pads == {"", " ", "\n\t"}

Answers == {l \o a \o r : l \in Pads, a \in AnswerCores, r \in Pads}

Replies ==
    [kind : {"answer"}, text : Answers]
        \cup {[kind |-> "raised", text |-> "rate limit"], [kind |-> "no answer", text |-> ""]}

InitAnswer ==
    /\ op = "get_answer"
    /\ pc = "acall"
    /\ ChunkerIdle
    /\ RetrieverIdle
    /\ EmbedderIdle
    /\ SessionIdle
    /\ question \in {"", "q"}
    /\ reply \in Replies
    /\ answer = ""

NextAnswer == GetAnswer

SpecAnswer == InitAnswer /\ [][NextAnswer]_vars

(***************************************************************************)
(* ChatBot (src/src/llm/chat_completion.py).                               *)
(*                                                                         *)
(* The two messages of the code that begin with a symbol outside ASCII are *)
(* written with "(!)" and "(x)" in its place.                              *)
(***************************************************************************)
ERROR_NO_CONTEXT == "(!) I couldn't find that information in your documents."
ASK_A_QUESTION == "Please ask a question."
ERROR_GENERATING == "(x) Error generating response: "
CHAT_TOP_K == 5

\* lines 53-93: chat(q, ctx), the backend answering or raising as `reply` says;
\* the context only changes the prompt (lines 66-78)
chat(q, ctx) ==
    IF blank(q)
    THEN ASK_A_QUESTION
    ELSE IF reply.kind = "raised"
    THEN ERROR_GENERATING \o reply.text
    ELSE reply.text

\* lines 107-124; an exception of retrieve leaves chat_with_retrieval at line 108
ChatWithRetrieval ==
    /\ op = "chat_with_retrieval"
    /\ pc = "ccall"
    /\ retrieve(question, top_k)
    /\ IF outcome' = "returned"
       THEN /\ context_parts' = IF results' = <<>> THEN <<>>
                                ELSE pack_context(results', 1, <<>>, 0, max_length)
            /\ context' = join(context_parts')
            /\ answer' = chat(question, context')
            /\ sources' = get_relevant_sources(results')
       ELSE UNCHANGED <<context_parts, context, answer, sources>>
    /\ pc' = "cdone"
    /\ UNCHANGED <<op, self_top_k, query, top_k, threshold, filtered, max_length,
                   question, reply>>
    /\ UNCHANGED <<chunker_vars, embedder_vars, session_vars>>

ChatReplies ==
    {[kind |-> "answer", text |-> ERROR_NO_CONTEXT],
     [kind |-> "answer", text |-> "Paris is the capital of France."],
     [kind |-> "answer", text |-> ""],
     [kind |-> "raised", text |-> "rate limit"]}

InitChat ==
    /\ op = "chat_with_retrieval"
    /\ pc = "ccall"
    /\ ChunkerIdle
    /\ EmbedderIdle
    /\ SessionIdle
    /\ self_top_k = TOP_K_RESULTS
    /\ query = ""
    /\ top_k \in {<<CHAT_TOP_K>>, <<0>>}
    /\ threshold = 0
    /\ calls = <<>>
    /\ outcome = "none"
    /\ results = <<>>
    /\ filtered = <<>>
    /\ max_length = DEFAULT_MAX_LENGTH
    /\ context_parts = <<>>
    /\ context = ""
    /\ sources = <<>>
    /\ question \in Queries
    /\ reply \in ChatReplies
    /\ answer = ""

NextChat == ChatWithRetrieval

SpecChat == InitChat /\ [][NextChat]_vars

(***************************************************************************)
(* OpenAIEmbedder (src/src/embedding/embedder.py).                         *)
(*                                                                         *)
(* The embeddings API answers a request with one vector per text of the    *)
(* request, in the order of the request, or fails.                         *)
(***************************************************************************)
MaxTexts == 3
MaxBatchSize == 2
DEFAULT_BATCH_SIZE == 100

\* the vector the embedding model gives a text
embedding_of(t) == <<"embedding", t>>

\* line 66
valid_texts(ts) == Select(ts, {i \in 1..Len(ts) : ~blank(ts[i])})

\* line 75: the number of iterations of the loop
batch_count(n, bs) == (n + bs - 1) \div bs

\* line 76: the batch of the j-th iteration
batch(valid, bs, j) ==
    SubSeq(valid, (j - 1) * bs + 1, IF j * bs < Len(valid) THEN j * bs ELSE Len(valid))

\* lines 71-85: `embeddings` after the first n iterations
RECURSIVE extend_embeddings(_, _, _)
extend_embeddings(valid, bs, n) ==
    IF n = 0
    THEN <<>>
    ELSE LET b == batch(valid, bs, n)
         IN  extend_embeddings(valid, bs, n - 1) \o [i \in 1..Len(b) |-> embedding_of(b[i])]

\* lines 62-90: what embed_batch does when the request number `fails_at` fails
embed_batch(ts, bs, fails_at) ==
    LET valid == valid_texts(ts)
        n == batch_count(Len(valid), bs)
        sent == IF fails_at \in 1..n THEN fails_at ELSE n
    IN  IF ts = <<>>
        THEN [outcome |-> "returned", embeddings |-> <<>>, requests |-> <<>>]
        ELSE IF valid = <<>>
        THEN [outcome |-> "raised", embeddings |-> <<>>, requests |-> <<>>]
        ELSE [outcome |-> IF fails_at \in 1..n THEN "raised" ELSE "returned",
              embeddings |-> IF fails_at \in 1..n THEN <<>>
                             ELSE extend_embeddings(valid, bs, n),
              requests |-> [j \in 1..sent |->
                               [fn |-> "embeddings.create", input |-> batch(valid, bs, j)]]]

EmbedBatch ==
    /\ op = "embed_batch"
    /\ pc = "ecall"
    /\ LET r == embed_batch(texts, batch_size, api_fails_at)
       IN  /\ outcome' = r.outcome
           /\ embeddings' = r.embeddings
           /\ calls' = r.requests
    /\ pc' = "edone"
    /\ UNCHANGED <<op, texts, batch_size, api_fails_at, embedded_chunks>>
    /\ UNCHANGED <<self_top_k, query, top_k, threshold, results, filtered, max_length,
                   context_parts, context, sources>>
    /\ UNCHANGED <<chunker_vars, chat_vars, session_vars>>

\* lines 102-115, for chunks with the texts `texts`
EmbedChunks ==
    /\ op = "embed_chunks"
    /\ pc = "ecall"
    /\ LET r == IF texts = <<>>
                THEN [outcome |-> "returned", embeddings |-> <<>>, requests |-> <<>>]
                ELSE embed_batch(texts, DEFAULT_BATCH_SIZE, api_fails_at)
       IN  /\ outcome' = r.outcome
           /\ embeddings' = r.embeddings
           /\ calls' = r.requests
           /\ embedded_chunks' =
                  IF r.outcome = "raised"
                  THEN <<>>
                  ELSE [i \in 1..Len(texts) |->
                           IF i <= Len(r.embeddings)
                           THEN [text |-> texts[i], embedding |-> r.embeddings[i]]
                           ELSE [text |-> texts[i]]]
    /\ pc' = "edone"
    /\ UNCHANGED <<op, texts, batch_size, api_fails_at>>
    /\ UNCHANGED <<self_top_k, query, top_k, threshold, results, filtered, max_length,
                   context_parts, context, sources>>
    /\ UNCHANGED <<chunker_vars, chat_vars, session_vars>>

EmbedTexts == {"a", "b", "", " "}

InitEmbed ==
    /\ op \in {"embed_batch", "embed_chunks"}
    /\ pc = "ecall"
    /\ ChunkerIdle
    /\ RetrieverIdle
    /\ ChatIdle
    /\ SessionIdle
    /\ texts \in UNION {[1..n -> EmbedTexts] : n \in 0..MaxTexts}
    /\ batch_size \in IF op = "embed_batch" THEN (1..MaxBatchSize) \cup {DEFAULT_BATCH_SIZE}
                      ELSE {DEFAULT_BATCH_SIZE}
    /\ api_fails_at \in 0..MaxTexts
    /\ embeddings = <<>>
    /\ embedded_chunks = <<>>

NextEmbed ==
    \/ EmbedBatch
    \/ EmbedChunks

SpecEmbed == InitEmbed /\ [][NextEmbed]_vars

(***************************************************************************)
(* The Streamlit session (src/src/ui/streamlit_app.py).                    *)
(*                                                                         *)
(* A handler (process_documents, load_existing_database, clear_database,   *)
(* the chat input, the clear-chat button) runs from its first line to its  *)
(* return in one step.  The calls that leave the program (the OpenAI       *)
(* client, the vector store, the file system) either answer or raise; the  *)
(* files of the uploader say which of their calls raises.  An object of    *)
(* the session is "None" or the name of its class.                         *)
(***************************************************************************)
MaxFiles == 2
MaxQuestions == 2
MaxProcessed == MaxFiles + 1

ERROR_PREFIX == "(x) Error: "
NoneTypeError == "'NoneType' object has no attribute 'chat_with_retrieval'"

\* the uploads: a name, the text the extractor finds in the file, and the
\* call made for the file that raises
Files ==
    {[name |-> "A.txt", text |-> <<"a", ".", " ", "b">>, raises |-> "none"],
     [name |-> "D.TXT", text |-> <<" ">>, raises |-> "none"],
     [name |-> "B.pdf", text |-> <<"c">>, raises |-> "embeddings.create"],
     [name |-> "B.pdf", text |-> <<>>, raises |-> "extract_text"],
     [name |-> "C.exe", text |-> <<"c">>, raises |-> "none"]}

FileLists == UNION {[1..n -> Files] : n \in 1..MaxFiles}

\* the calls of a handler one of which may raise
ProcessFaults ==
    {"none", "OpenAIEmbedder", "load_or_create_vector_store", "add_documents",
     "save", "ChatBot"}
LoadFaults == {"none", "load_or_create_vector_store", "OpenAIEmbedder", "ChatBot"}
ClearFaults == {"none", "clear", "unlink"}

\* what the user types into the chat input
Questions == {"q"}

\* what the vector store finds for a question
SessionHits ==
    {<<[text |-> ShortText, filename |-> "B.pdf", score |-> 95],
       [text |-> ShortText, filename |-> "A.txt", score |-> 90]>>}

\* what the generator backend does in this session
SessionReplies ==
    {[kind |-> "answer", text |-> "Paris is the capital of France."]}

\* str.lower() of a string
RECURSIVE str_lower(_)
str_lower(s) ==
    IF s = "" THEN "" ELSE lower(SubSeq(s, 1, 1)) \o str_lower(SubSeq(s, 2, Len(s)))

\* line 73: Path(file.name).suffix.lower(), for a name that ends with a dot
\* and three letters
suffix_lower(name) == str_lower(SubSeq(name, Len(name) - 3, Len(name)))

\* lines 73-88: process_document, returning (data, error); error "" is None
process_document(file) ==
    LET file_ext == suffix_lower(file.name)
    IN  IF file_ext \notin {".pdf", ".docx", ".txt"}
        THEN [data |-> <<>>, error |-> "Unsupported file type: " \o file_ext]
        ELSE IF file.raises = "extract_text"
        THEN [data |-> <<>>, error |-> "Error extracting text: unreadable"]
        ELSE [data |-> [text |-> file.text, file_type |-> SubSeq(file_ext, 2, 4)],
              error |-> ""]

\* the characters of a chunk text as one string
RECURSIVE as_string(_)
as_string(t) == IF t = <<>> THEN "" ELSE t[1] \o as_string(Tail(t))

\* mutant: the vectors are computed and not attached to the chunks
embed_chunks_unattached(cs, fails_at) ==
    IF cs = <<>>
    THEN [outcome |-> "returned", chunks |-> <<>>]
    ELSE LET r == embed_batch([i \in 1..Len(cs) |-> as_string(cs[i].text)],
                              DEFAULT_BATCH_SIZE, fails_at)
         IN  IF r.outcome = "raised"
             THEN [outcome |-> "raised", chunks |-> <<>>]
             ELSE [outcome |-> "returned", chunks |-> cs]

\* embedder.py lines 102-115: embed_chunks, the API failing at request fails_at
embed_chunks(cs, fails_at) ==
    IF cs = <<>>
    THEN [outcome |-> "returned", chunks |-> <<>>]
    ELSE LET r == embed_batch([i \in 1..Len(cs) |-> as_string(cs[i].text)],
                              DEFAULT_BATCH_SIZE, fails_at)
         IN  IF r.outcome = "raised"
             THEN [outcome |-> "raised", chunks |-> <<>>]
             ELSE [outcome |-> "returned",
                   chunks |-> [i \in 1..Len(cs) |->
                                  IF i <= Len(r.embeddings)
                                  THEN update(cs[i], [embedding |-> r.embeddings[i]])
                                  ELSE cs[i]]]

\* mutant: a file whose extraction fails is not counted
count_error_none(n) == n

\* line 273: error_count += 1
count_error(n) == n + 1

\* the locals of process_documents before the loop (lines 246-248), with the
\* session's processed_files
loop_start(pf) ==
    [all_chunks |-> <<>>, processed_count |-> 0, error_count |-> 0,
     warnings |-> <<>>, processed_files |-> pf, raised |-> "none"]

\* lines 260-290: the loop over the uploads from the i-th on; `raised` names
\* the call whose exception left the loop
RECURSIVE process_files(_, _, _)
process_files(files, i, st) ==
    IF i > Len(files)
    THEN st
    ELSE LET file == files[i]
             r == process_document(file)
         IN  IF r.error # ""
         THEN process_files(files, i + 1,
                  [st EXCEPT !.warnings = Append(@, file.name),
                             !.error_count = count_error(@)])
         ELSE LET cs == chunk_text_result(r.data.text, CHUNK_SIZE, CHUNK_OVERLAP,
                            [filename |-> file.name,
                             file_type |-> get(r.data, "file_type", "unknown")])
                  e == embed_chunks(cs, IF file.raises = "embeddings.create"
                                        THEN 1 ELSE 0)
              IN  IF e.outcome = "raised"
                  THEN [st EXCEPT !.raised = "embed_chunks"]
                  ELSE process_files(files, i + 1,
                           [st EXCEPT !.all_chunks = @ \o e.chunks,
                                      !.processed_count = @ + 1,
                                      !.processed_files = Append(@, file.name)])

\* mutant: documents_loaded is set before the chatbot is built
loaded_after_early(loaded, stored, built) == IF stored THEN TRUE ELSE loaded

\* lines 303-306 and 328-331: documents_loaded after the handler, `stored`
\* and `built` saying whether the assignments to vector_store and to chatbot
\* were reached
loaded_after(loaded, stored, built) == IF built THEN TRUE ELSE loaded

\* lines 240-318: process_documents on the uploads of the session
ProcessDocuments ==
    /\ Len(processed_files) + Len(uploaded_files) <= MaxProcessed
    /\ \E ft \in ProcessFaults :
       \E st \in {IF ft \in {"OpenAIEmbedder", "load_or_create_vector_store"}
                  THEN [loop_start(processed_files) EXCEPT !.raised = ft]
                  ELSE process_files(uploaded_files, 1, loop_start(processed_files))} :
         LET adds == st.raised = "none" /\ st.all_chunks # <<>>
             added == adds /\ ft # "add_documents"
             saved == added /\ ft # "save"
             built == saved /\ ft # "ChatBot"
         IN  /\ all_chunks' = st.all_chunks
             /\ processed_count' = st.processed_count
             /\ error_count' = st.error_count
             /\ warnings' = st.warnings
             /\ processed_files' = st.processed_files
             /\ store_calls' =
                    (IF adds
                     THEN <<[fn |-> "add_documents", chunks |-> st.all_chunks]>>
                     ELSE <<>>)
                    \o (IF added THEN <<[fn |-> "save"]>> ELSE <<>>)
             /\ vector_store' = IF saved THEN "FAISSVectorStore" ELSE vector_store
             /\ retriever' = IF saved THEN "DocumentRetriever" ELSE retriever
             /\ chatbot' = IF built THEN "ChatBot" ELSE chatbot
             /\ documents_loaded' = loaded_after(documents_loaded, saved, built)
             /\ fault' = IF st.raised # "none" THEN st.raised
                         ELSE IF adds /\ ~built THEN ft
                         ELSE "none"
             /\ handled' = [fn |-> "process_documents",
                            completed |-> st.raised = "none" /\ (adds => built)]
    /\ UNCHANGED <<op, pc, uploaded_files, chat_history>>
    /\ UNCHANGED <<chunker_vars, retriever_vars, chat_vars, embedder_vars>>

\* lines 321-339: load_existing_database
LoadExistingDatabase ==
    /\ \E ft \in LoadFaults, has_data \in BOOLEAN :
         LET found == ft # "load_or_create_vector_store" /\ has_data
             stored == found /\ ft # "OpenAIEmbedder"
             built == stored /\ ft # "ChatBot"
         IN  /\ vector_store' = IF stored THEN "FAISSVectorStore" ELSE vector_store
             /\ retriever' = IF stored THEN "DocumentRetriever" ELSE retriever
             /\ chatbot' = IF built THEN "ChatBot" ELSE chatbot
             /\ documents_loaded' = loaded_after(documents_loaded, stored, built)
             /\ store_calls' = IF built THEN <<[fn |-> "get_stats"]>> ELSE <<>>
             /\ fault' = IF ft = "load_or_create_vector_store" \/ (found /\ ~built)
                         THEN ft ELSE "none"
             /\ handled' = [fn |-> "load_existing_database",
                            completed |-> ft = "none" \/ (~found /\ ft # "load_or_create_vector_store")]
    /\ all_chunks' = <<>>
    /\ processed_count' = 0
    /\ error_count' = 0
    /\ warnings' = <<>>
    /\ UNCHANGED <<op, pc, uploaded_files, chat_history, processed_files>>
    /\ UNCHANGED <<chunker_vars, retriever_vars, chat_vars, embedder_vars>>

\* lines 342-375: clear_database
ClearDatabase ==
    /\ \E ft \in ClearFaults :
         LET clears == vector_store # "None"
             cleared == ~(clears /\ ft = "clear")
             reset == cleared /\ ft # "unlink"
         IN  /\ store_calls' = IF clears THEN <<[fn |-> "clear"]>> ELSE <<>>
             /\ vector_store' = IF reset THEN "None" ELSE vector_store
             /\ retriever' = IF reset THEN "None" ELSE retriever
             /\ chatbot' = IF reset THEN "None" ELSE chatbot
             /\ documents_loaded' = IF reset THEN FALSE ELSE documents_loaded
             /\ chat_history' = IF reset THEN <<>> ELSE chat_history
             /\ processed_files' = IF reset THEN <<>> ELSE processed_files
             /\ fault' = IF reset THEN "none" ELSE ft
             /\ handled' = [fn |-> "clear_database", completed |-> reset]
    /\ all_chunks' = <<>>
    /\ processed_count' = 0
    /\ error_count' = 0
    /\ warnings' = <<>>
    /\ UNCHANGED <<op, pc, uploaded_files>>
    /\ UNCHANGED <<chunker_vars, retriever_vars, chat_vars, embedder_vars>>

\* chat_completion.py lines 107-124, called on the session's chatbot and
\* retriever (streamlit_app.py lines 203-207): the result, or the exception;
\* `retrieved` says whether retrieve returned (its embed_text and its search
\* both answered) or raised
chat_with_retrieval(q, retrieved, hits) ==
    IF chatbot = "None"
    THEN [kind |-> "raised", text |-> NoneTypeError]
    ELSE IF blank(q)
    THEN [kind |-> "returned", answer |-> chat(q, ""), sources |-> <<>>]
    ELSE IF ~retrieved
    THEN [kind |-> "raised", text |-> "Error generating embedding: timeout"]
    ELSE [kind |-> "returned",
          answer |-> chat(q, join(IF hits = <<>> THEN <<>>
                                  ELSE pack_context(hits, 1, <<>>, 0, DEFAULT_MAX_LENGTH))),
          sources |-> get_relevant_sources(hits)]

\* mutant: an exception of the pipeline is shown and not recorded
assistant_messages_unrecorded(result) ==
    IF result.kind = "returned"
    THEN <<[role |-> "assistant", content |-> result.answer, sources |-> result.sources]>>
    ELSE <<>>

\* lines 202-232: what the try statement appends to the history
assistant_messages(result) ==
    IF result.kind = "returned"
    THEN <<[role |-> "assistant", content |-> result.answer, sources |-> result.sources]>>
    ELSE <<[role |-> "assistant", content |-> ERROR_PREFIX \o result.text]>>

\* lines 192-232: a question typed into the chat input
ChatInput ==
    /\ documents_loaded
    /\ Len(chat_history) < 2 * MaxQuestions
    /\ \E q \in Questions, retrieved \in BOOLEAN, hits \in SessionHits :
         LET result == chat_with_retrieval(q, retrieved, hits)
         IN  /\ chat_history' = Append(chat_history, [role |-> "user", content |-> q])
                                    \o assistant_messages(result)
             /\ fault' = IF result.kind = "raised" THEN "chat_with_retrieval" ELSE "none"
    /\ handled' = [fn |-> "chat_input", completed |-> TRUE]
    /\ all_chunks' = <<>>
    /\ processed_count' = 0
    /\ error_count' = 0
    /\ warnings' = <<>>
    /\ store_calls' = <<>>
    /\ UNCHANGED <<op, pc, uploaded_files, vector_store, retriever, chatbot,
                   documents_loaded, processed_files>>
    /\ UNCHANGED <<chunker_vars, retriever_vars, chat_vars, embedder_vars>>

\* lines 235-237: the clear-chat button
ClearChatHistory ==
    /\ documents_loaded
    /\ chat_history' = <<>>
    /\ fault' = "none"
    /\ handled' = [fn |-> "clear_chat_history", completed |-> TRUE]
    /\ all_chunks' = <<>>
    /\ processed_count' = 0
    /\ error_count' = 0
    /\ warnings' = <<>>
    /\ store_calls' = <<>>
    /\ UNCHANGED <<op, pc, uploaded_files, vector_store, retriever, chatbot,
                   documents_loaded, processed_files>>
    /\ UNCHANGED <<chunker_vars, retriever_vars, chat_vars, embedder_vars>>

\* a new session: the state of initialize_session_state, the files the user
\* has put into the uploader, and the backend's behaviour
InitSession ==
    /\ op = "main"
    /\ pc = "rerun"
    /\ ChunkerIdle
    /\ RetrieverIdle
    /\ EmbedderIdle
    /\ question = ""
    /\ reply \in SessionReplies
    /\ answer = ""
    /\ uploaded_files \in FileLists
    /\ fault = "none"
    /\ all_chunks = <<>>
    /\ processed_count = 0
    /\ error_count = 0
    /\ warnings = <<>>
    /\ store_calls = <<>>
    /\ handled = NoHandler
    /\ initialize_session_state

NextSession ==
    \/ ProcessDocuments
    \/ LoadExistingDatabase
    \/ ClearDatabase
    \/ ChatInput
    \/ ClearChatHistory

SpecSession == InitSession /\ [][NextSession]_vars

(***************************************************************************)
(* Properties of chunk_text                                                *)
(***************************************************************************)
InChunkText == pc \in {"loop", "done"}
AfterWindow == pc = "loop" /\ win_start >= 0
PlainCall == DOMAIN metadata = {}

\* C1: chunk_text terminates: every iteration of the while loop leaves `start`
\* strictly greater than the start of the window it has just handled.
C1_StartStrictlyIncreases ==
    (AfterWindow /\ PlainCall /\ chunk_overlap < chunk_size) => start > win_start

\* C2: every emitted chunk has 0 <= start_pos < end_pos <= len(cleaned text),
\* the last chunk of the document included.
C2_SpanWithinText ==
    (InChunkText /\ PlainCall) =>
        \A i \in 1..Len(chunks) :
            /\ 0 <= chunks[i].start_pos
            /\ chunks[i].start_pos < chunks[i].end_pos
            /\ chunks[i].end_pos <= Len(text)

\* the offsets of the cleaned text that the windows handled so far reach
WindowsReach ==
    IF pc = "done" \/ end > Len(text) THEN Len(text) ELSE end

\* every non-whitespace offset reached lies in the span of an emitted chunk,
\* and the next window starts at or before the end of the last one
CoversText ==
    /\ AfterWindow => start <= end
    /\ \A p \in 0..(WindowsReach - 1) :
           ~isspace(text[p + 1]) =>
               \E i \in 1..Len(chunks) :
                   chunks[i].start_pos <= p /\ p < chunks[i].end_pos

\* C3: for 0 <= chunk_overlap < chunk_size the emitted chunks cover the
\* cleaned text: each window starts at or before the previous window's end,
\* and every non-whitespace offset lies in [start_pos, end_pos) of a chunk.
C3_ChunksCoverText ==
    (InChunkText /\ 0 <= chunk_overlap /\ chunk_overlap < chunk_size) => CoversText

\* C3, amended: the same for every call whose metadata has neither a
\* start_pos nor an end_pos key.
C3_ChunksCoverText_NoPosKeys ==
    (/\ InChunkText
     /\ 0 <= chunk_overlap /\ chunk_overlap < chunk_size
     /\ "start_pos" \notin DOMAIN metadata
     /\ "end_pos" \notin DOMAIN metadata) => CoversText

\* a finished call that emitted several overlapping chunks and skipped a
\* window of whitespace
C3_Witness ==
    /\ pc = "done"
    /\ PlainCall
    /\ chunk_overlap > 0
    /\ Len(chunks) >= 2
    /\ \E p \in 0..(Len(text) - 1) :
           /\ isspace(text[p + 1])
           /\ \A i \in 1..Len(chunks) :
                  ~(chunks[i].start_pos <= p /\ p < chunks[i].end_pos)

\* the ids of a returned sequence are 0, 1, ..., n-1 in output order
Contiguous(cs) == \A i \in 1..Len(cs) : cs[i].chunk_id = i - 1

ContiguousIds ==
    /\ InChunkText => (Contiguous(chunks) /\ chunk_id = Len(chunks))
    /\ pc \in {"para", "pdone"} => (Contiguous(pchunks) /\ pchunk_id = Len(pchunks))

\* C4: in every sequence returned by chunk_text or chunk_by_paragraphs the
\* chunk_id values are 0, 1, ..., n-1 in output order, and a window whose
\* trimmed text is empty consumes no id.
C4_ContiguousIds == ContiguousIds

\* C4, amended: the same for every call whose metadata has no chunk_id key.
C4_ContiguousIds_NoIdKey == ("chunk_id" \notin DOMAIN metadata) => ContiguousIds

\* chunk_by_paragraphs has returned chunks of a large and of a small paragraph
C4_Witness ==
    /\ pc = "pdone"
    /\ "chunk_id" \notin DOMAIN metadata
    /\ Len(pchunks) >= 3
    /\ \E i \in 1..Len(pchunks) : "start_pos" \in DOMAIN pchunks[i]
    /\ \E i \in 1..Len(pchunks) : "start_pos" \notin DOMAIN pchunks[i]

\* a chunk text is non-empty, trimmed and at most chunk_size long
TextsTrimmed ==
    \A i \in 1..Len(chunks) :
        LET t == chunks[i].text
        IN  /\ t # <<>>
            /\ ~isspace(t[1])
            /\ ~isspace(t[Len(t)])
            /\ Len(t) <= chunk_size

\* C5: every chunk emitted by chunk_text has a text that is non-empty, has
\* no leading or trailing whitespace, and is at most chunk_size long.
C5_TextsTrimmed == InChunkText => TextsTrimmed

\* C5, amended: the same for every call whose metadata has no text key.
C5_TextsTrimmed_NoTextKey ==
    (InChunkText /\ "text" \notin DOMAIN metadata) => TextsTrimmed

\* a chunk whose window had whitespace to trim
C5_Witness ==
    /\ InChunkText
    /\ PlainCall
    /\ \E i \in 1..Len(chunks) :
           /\ chunks[i].end_pos <= Len(text)
           /\ Len(chunks[i].text) < chunks[i].end_pos - chunks[i].start_pos

\* C6: after a window [start, end) the next window starts at
\* end - chunk_overlap when that is strictly greater than start, and at end
\* otherwise.
C6_NextWindowStart ==
    (AfterWindow /\ PlainCall /\ chunk_overlap < chunk_size) =>
        start = IF end - chunk_overlap > win_start
                THEN end - chunk_overlap
                ELSE end

\* the window [win_start, win_start + chunk_size) is not the last one
BoundarySought == AfterWindow /\ win_start + chunk_size < Len(text)

\* the offsets q of the last SentenceLookback characters of the candidate
\* window that hold a sentence end followed, in the text, by whitespace or by
\* the end of the text
QualifiedSentenceEnds ==
    LET e == win_start + chunk_size
        lo == IF win_start > e - SentenceLookback
              THEN win_start
              ELSE e - SentenceLookback
    IN  {q \in lo..(e - 1) :
            /\ text[q + 1] \in SentenceEnd
            /\ \/ q + 1 = Len(text)
               \/ isspace(text[q + 2])}

\* C7: a window that ends at a sentence boundary ends immediately after a
\* '.', '!' or '?' of the last 200 characters of the candidate window that is
\* followed in the text by whitespace or by the end of the text, and after
\* the last such character.
C7_SentenceBoundary ==
    (BoundarySought /\ PlainCall /\ win_kind = "sentence") =>
        /\ QualifiedSentenceEnds # {}
        /\ end = Max(QualifiedSentenceEnds) + 1

\* the whitespace offsets of the candidate window, from its offset `first`
WindowSpaces(first) ==
    {i \in first..(win_start + chunk_size - 1) : isspace(text[i + 1])}

C9_CleanTextNormalized ==
    pc = "cleaned" =>
        /\ \A i \in 1..(Len(text) - 2) :
               ~(text[i] = "\n" /\ text[i + 1] = "\n" /\ text[i + 2] = "\n")
        /\ \A i \in 1..(Len(text) - 1) : ~(text[i] = " " /\ text[i + 1] = " ")
        /\ \A i \in 1..Len(text) :
               (isspace(text[i]) /\ text[i] # "\n") =>
                   /\ i > 1 /\ text[i - 1] # "\n"
                   /\ i < Len(text) /\ text[i + 1] # "\n"
        /\ text # <<>> => (~isspace(text[1]) /\ ~isspace(text[Len(text)]))

\* every key of the metadata maps to the caller's value in every chunk of cs
MetadataWins(cs) ==
    \A i \in 1..Len(cs) : \A k \in DOMAIN metadata : cs[i][k] = metadata[k]

\* C10: in every chunk emitted by chunk_text and by chunk_by_paragraphs each
\* key of the caller's metadata maps to the caller's value, also when the key
\* is text, chunk_id, start_pos or end_pos.
C10_MetadataWins == MetadataWins(chunks) /\ MetadataWins(pchunks)

(***************************************************************************)
(* Properties of chunk_by_paragraphs                                       *)
(***************************************************************************)
\* the parts of s between its blank lines (two consecutive newlines), in order
RECURSIVE BlankLineParagraphs(_)
BlankLineParagraphs(s) ==
    IF \E i \in 1..(Len(s) - 1) : s[i] = "\n" /\ s[i + 1] = "\n"
    THEN LET i == CHOOSE i \in 1..(Len(s) - 1) :
                      /\ s[i] = "\n" /\ s[i + 1] = "\n"
                      /\ \A j \in 1..(i - 1) : ~(s[j] = "\n" /\ s[j + 1] = "\n")
         IN  <<SubSeq(s, 1, i - 1)>> \o BlankLineParagraphs(SubSeq(s, i + 2, Len(s)))
    ELSE <<s>>

WithoutId(c) == [k \in DOMAIN c \ {"chunk_id"} |-> c[k]]

\* what one paragraph has to contribute: the trimmed paragraph as the text of
\* one chunk, or chunk_text's chunks for it (whatever their ids)
ParagraphEmits(p) ==
    IF strip(p) = <<>>
    THEN <<>>
    ELSE IF Len(strip(p)) <= chunk_size
    THEN <<[text |-> strip(p)]>>
    ELSE LET sub == chunk_text_result(strip(p), chunk_size, chunk_overlap, metadata)
         IN  [i \in 1..Len(sub) |-> WithoutId(sub[i])]

RECURSIVE DocumentEmits(_)
DocumentEmits(ps) ==
    IF ps = <<>> THEN <<>> ELSE ParagraphEmits(Head(ps)) \o DocumentEmits(Tail(ps))

Carries(c, e) == \A k \in DOMAIN e : k \in DOMAIN c /\ c[k] = e[k]

ParagraphChunks ==
    LET es == DocumentEmits(BlankLineParagraphs(doc))
    IN  /\ Len(pchunks) = Len(es)
        /\ \A i \in 1..Len(es) : Carries(pchunks[i], es[i])

QueryBlank == \A i \in 1..Len(query) : SubSeq(query, i, i) \in {" ", "\n", "\t"}
CallsOf(f) == {i \in 1..Len(calls) : calls[i].fn = f}

\* C12: retrieve returns the empty list without calling the embedder or the
\* vector store for an empty or all-whitespace query; for any other query it
\* calls the embedder once and then the vector store once, and when the
\* embedder raises, retrieve raises and the vector store is not called.
C12_RetrieveCalls ==
    pc = "rdone" =>
        IF QueryBlank
        THEN outcome = "returned" /\ results = <<>> /\ calls = <<>>
        ELSE /\ CallsOf("embed_text") = {1}
             /\ calls[1].text = query
             /\ IF calls[1].raised
                THEN outcome = "raised" /\ CallsOf("search") = {}
                ELSE CallsOf("search") = {2} /\ Len(calls) = 2

\* a query with surrounding whitespace that was embedded and searched
C12_Witness ==
    /\ pc = "rdone"
    /\ ~QueryBlank
    /\ query # "q"
    /\ outcome = "returned"
    /\ Len(results) = 2

ScoreOf(r) == IF "score" \in DOMAIN r THEN r.score ELSE 0
Kept == {i \in 1..Len(results) : ScoreOf(results[i]) >= threshold}

\* C13: retrieve_with_threshold returns the results of retrieve whose score is
\* at least the threshold, each once and in the order retrieve returned them.
C13_ThresholdSubsequence ==
    (op = "retrieve_with_threshold" /\ pc = "rdone" /\ outcome = "returned") =>
        /\ Len(filtered) = Cardinality(Kept)
        /\ \A i \in Kept : filtered[Cardinality({j \in Kept : j <= i})] = results[i]

\* two results kept in an order that is not the order of their scores, one
\* of them at the threshold, and one result dropped
C13_Witness ==
    /\ op = "retrieve_with_threshold"
    /\ pc = "rdone"
    /\ outcome = "returned"
    /\ Len(results) = 3
    /\ Len(filtered) = 2
    /\ filtered[1].score = threshold
    /\ filtered[1].score < filtered[2].score

FormatReturned == op = "format_context" /\ pc = "fdone"

\* C14: the context format_context returns is at most max_length characters
\* plus the length of one ellipsis suffix.
C14_ContextLength == FormatReturned => Len(context) <= max_length + Len(Ellipsis)

\* the running total after the excerpts of the results of ranks 1..i
RECURSIVE Total(_)
Total(i) == IF i = 0 THEN 0 ELSE Total(i - 1) + Len(format_chunk(results[i], i))

\* the rank of the first result whose excerpt makes the total exceed max_length
FirstNonFit ==
    Min({i \in 1..Len(results) : Total(i) > max_length} \cup {Len(results) + 1})

Label(i) == "[Source " \o ToString(i) \o ": "

\* C15: format_context packs a prefix of the results in rank order: part i
\* is labelled 'Source i', the results before the first one that does not fit
\* are included whole, and nothing after that one is included.
C15_PrefixInRankOrder ==
    FormatReturned =>
        /\ Len(context_parts) >= FirstNonFit - 1
        /\ Len(context_parts) <= FirstNonFit
        /\ Len(context_parts) <= Len(results)
        /\ \A i \in 1..Len(context_parts) :
               /\ SubSeq(context_parts[i], 1, Len(Label(i))) = Label(i)
               /\ i < FirstNonFit => context_parts[i] = format_chunk(results[i], i)

\* the second of three results does not fit and the third one would
C15_Witness ==
    /\ FormatReturned
    /\ Len(results) = 3
    /\ FirstNonFit = 2
    /\ Total(1) + Len(format_chunk(results[3], 3)) <= max_length
    /\ Len(context_parts) = 1

\* C16: the excerpt of the first result that does not fit is appended, cut to
\* the remaining budget and followed by the ellipsis, exactly when the remaining
\* budget is more than 100 characters; otherwise nothing is appended for it;
\* packing stops there, so only the last part can be a truncated one.
C16_TruncateLast ==
    (FormatReturned /\ FirstNonFit <= Len(results)) =>
        LET i == FirstNonFit
            remaining == max_length - Total(i - 1)
            whole == format_chunk(results[i], i)
        IN  /\ IF remaining > 100
               THEN /\ Len(context_parts) = i
                    /\ context_parts[i] = SubSeq(whole, 1, remaining) \o "...\n"
               ELSE Len(context_parts) = i - 1
            /\ \A j \in 1..(i - 1) : context_parts[j] = format_chunk(results[j], j)

\* a second excerpt cut to a remaining budget of 101 characters
C16_Witness ==
    /\ FormatReturned
    /\ FirstNonFit = 2
    /\ max_length - Total(1) = 101
    /\ Len(context_parts) = 2
    /\ Len(context_parts[2]) = 105

Filenames == {results[i].filename : i \in {j \in 1..Len(results) : "filename" \in DOMAIN results[j]}}

Generated == IF reply.kind = "answer" THEN reply.text ELSE ""

\* the length of a string without its leading and trailing whitespace
TrimmedLen(a) ==
    LET solid == {i \in 1..Len(a) : SubSeq(a, i, i) \notin {" ", "\n", "\t"}}
    IN  IF solid = {} THEN 0 ELSE Max(solid) - Min(solid) + 1

\* a and b are the same character but for the case of a letter
SameLetter(a, b) ==
    \/ a = b
    \/ \E i \in 1..26 : {a, b} = {SubSeq(UpperCase, i, i), SubSeq(LowerCase, i, i)}

HasPhrase(a) ==
    \E phrase \in uncertainty_phrases, i \in 1..Len(a) :
        /\ i + Len(phrase) - 1 <= Len(a)
        /\ \A j \in 1..Len(phrase) :
               SameLetter(SubSeq(a, i + j - 1, i + j - 1), SubSeq(phrase, j, j))

\* C18: get_answer returns the fallback message when the generated answer is
\* shorter than 10 characters after trimming or contains an uncertainty phrase
\* in any case, and when the backend raises; it returns every other answer
\* unchanged.
C18_AnswerOrFallback ==
    (op = "get_answer" /\ pc = "adone") =>
        IF reply.kind = "raised" \/ TrimmedLen(Generated) < 10 \/ HasPhrase(Generated)
        THEN answer = "I couldn't find that info in the uploaded documents."
        ELSE answer = Generated

\* an answer of more than 10 characters replaced for a phrase in upper case
C18_Witness ==
    /\ op = "get_answer"
    /\ pc = "adone"
    /\ reply = [kind |-> "answer", text |-> " The file was NOT FOUND.\n\t"]
    /\ answer = ANSWER_FALLBACK

NoContext == results = <<>> \/ context = ""

\* C19: when retrieval gives chat_with_retrieval no context, the answer it
\* returns is the fallback message, whatever the backend generates.
C19_NoContextFallback ==
    (op = "chat_with_retrieval" /\ pc = "cdone" /\ outcome = "returned" /\ NoContext) =>
        answer = ERROR_NO_CONTEXT

(***************************************************************************)
(* Properties of OpenAIEmbedder                                            *)
(***************************************************************************)
\* C20: embed_batch returns one vector per input text, the vector at position
\* i being the embedding of the text at position i, for every batch size.
C20_OneVectorPerText ==
    (op = "embed_batch" /\ pc = "edone" /\ outcome = "returned" /\ batch_size >= 1) =>
        /\ Len(embeddings) = Len(texts)
        /\ \A i \in 1..Len(texts) : embeddings[i] = embedding_of(texts[i])

(***************************************************************************)
(* The retriever's top_k and the failures of chat_with_retrieval           *)
(***************************************************************************)
SearchCalled == pc = "rdone" /\ CallsOf("search") # {}

\* C25: retrieve passes the caller's top_k to the index search unchanged
\* whenever the caller gives one (0 included), and the configured default
\* only when the caller gives none.
C25_TopKPassedUnchanged ==
    SearchCalled =>
        \A i \in CallsOf("search") :
            calls[i].top_k = IF top_k = <<>> THEN self_top_k ELSE top_k[1]

ChatReturned == op = "chat_with_retrieval" /\ pc = "cdone"

\* C24: chat_with_retrieval never raises to its caller: when the query
\* embedding, the index search or the answer generation fails, the call still
\* returns, with a visible error string as the answer.
C24_NeverRaises ==
    ChatReturned =>
        /\ outcome = "returned"
        /\ (~blank(question) /\ reply.kind = "raised") =>
               answer = ERROR_GENERATING \o reply.text

(***************************************************************************)
(* chunk_text: the metadata argument and consecutive spans                 *)
(***************************************************************************)
ChunkTextDone == op = "chunk_text" /\ pc = "done"

\* the texts of the chunks cs, in order
TextsOf(cs) == [i \in 1..Len(cs) |-> cs[i].text]

\* what the loop emits for the same cleaned text and configuration when the
\* call has no metadata
WithoutMetadata ==
    chunk_text_loop(text, 0, 0, <<>>, chunk_size, chunk_overlap, NoMetadata,
                    2 * MaxChunks)

\* C26: the sequence of chunk texts chunk_text emits for a text and a
\* configuration is the same for every metadata argument: neither the window
\* positions nor the anti-stall decision depend on the metadata.
C26_TextsIgnoreMetadata ==
    ChunkTextDone => TextsOf(chunks) = TextsOf(WithoutMetadata)

\* the offset after the last character of the cleaned text that chunk i covers
SpanEnd(i) == IF chunks[i].end_pos > Len(text) THEN Len(text) ELSE chunks[i].end_pos

\* C27: every chunk emitted by chunk_text after the first covers a character
\* of the cleaned text that lies beyond the span of the chunk emitted before
\* it, so that no chunk's span is wholly contained in its predecessor's.
C27_ChunksAdvance ==
    (op = "chunk_text" /\ InChunkText /\ PlainCall /\ chunk_overlap < chunk_size) =>
        \A i \in 2..Len(chunks) : SpanEnd(i) > SpanEnd(i - 1)

(***************************************************************************)
(* The sources chat_with_retrieval reports                                 *)
(***************************************************************************)
\* part i of the context is an excerpt labelled with the filename f
LabelledWith(i, f) ==
    LET label == Label(i) \o f \o " (relevance: "
    IN  /\ Len(context_parts[i]) >= Len(label)
        /\ SubSeq(context_parts[i], 1, Len(label)) = label

\* C28: every filename in the sources chat_with_retrieval returns labels an
\* excerpt of the context handed to the answer generator; a source all of
\* whose chunks the packing of format_context dropped is not reported.
C28_SourcesInContext ==
    (ChatReturned /\ outcome = "returned") =>
        \A s \in 1..Len(sources) :
            \E i \in 1..Len(context_parts) : LabelledWith(i, sources[s])

(***************************************************************************)
(* Properties of the Streamlit session                                     *)
(***************************************************************************)
Processed == handled.fn = "process_documents"

\* the i-th upload is of a type process_document does not support
Unsupported(i) ==
    LET name == uploaded_files[i].name
    IN  \A ext \in {".txt", ".TXT", ".pdf"} :
            SubSeq(name, Len(name) - Len(ext) + 1, Len(name)) # ext

\* the extraction of the i-th upload fails
ExtractionFails(i) == Unsupported(i) \/ uploaded_files[i].raises = "extract_text"

\* the uploads whose extraction fails, and the others
FailedUploads == {i \in 1..Len(uploaded_files) : ExtractionFails(i)}
ExtractedUploads == {i \in 1..Len(uploaded_files) : ~ExtractionFails(i)}

\* the names of the uploads at the indices I, in the order of the uploads
NamesAt(I) == Select([i \in 1..Len(uploaded_files) |-> uploaded_files[i].name], I)

\* process_documents went through its loop without an exception
LoopCompleted ==
    Processed /\ fault \notin {"OpenAIEmbedder", "load_or_create_vector_store",
                               "embed_chunks"}

\* C21: in process_documents a file whose extraction fails (unsupported type
\* or extractor error) is reported as a warning and counted as an error, and
\* every other uploaded file is still processed; when nothing else fails,
\* processed_count + error_count is the number of uploaded files.
C21_ExtractionFailuresCounted ==
    LoopCompleted =>
        /\ warnings = NamesAt(FailedUploads)
        /\ error_count = Cardinality(FailedUploads)
        /\ processed_count = Cardinality(ExtractedUploads)
        /\ processed_count + error_count = Len(uploaded_files)
        /\ Len(processed_files) >= processed_count
        /\ SubSeq(processed_files, Len(processed_files) - processed_count + 1,
                  Len(processed_files)) = NamesAt(ExtractedUploads)

\* a file that fails extraction, followed by a file whose chunks were indexed
C21_Witness ==
    /\ LoopCompleted
    /\ Len(uploaded_files) = 2
    /\ ExtractionFails(1)
    /\ ~ExtractionFails(2)
    /\ handled.completed
    /\ \E c \in 1..Len(store_calls) :
           /\ store_calls[c].fn = "add_documents"
           /\ store_calls[c].chunks # <<>>

\* the embedding request made for the i-th upload fails
EmbeddingFails(i) ==
    /\ ~ExtractionFails(i)
    /\ uploaded_files[i].raises = "embeddings.create"
    /\ strip(uploaded_files[i].text) # <<>>

\* the i-th upload has text and nothing fails for it
Embeddable(i) ==
    /\ ~ExtractionFails(i)
    /\ uploaded_files[i].raises = "none"
    /\ strip(uploaded_files[i].text) # <<>>

\* the chunks handed to the vector store's add_documents by the last handler
AddCalls == {c \in 1..Len(store_calls) : store_calls[c].fn = "add_documents"}
Added == UNION {{store_calls[c].chunks[k] : k \in 1..Len(store_calls[c].chunks)} :
                    c \in AddCalls}

\* C22: in process_documents an embedding failure for one document is
\* recorded as a failure of that file, and the ingestion goes on with the
\* other files, whose chunks are still added to the vector index.
C22_EmbeddingFailureContinues ==
    (Processed /\ fault \in {"none", "embed_chunks"}) =>
        \A i \in 1..Len(uploaded_files) :
            /\ EmbeddingFails(i) =>
                   \E w \in 1..Len(warnings) : warnings[w] = uploaded_files[i].name
            /\ Embeddable(i) =>
                   \E ch \in Added : ch.filename = uploaded_files[i].name

SessionObjectsSet == vector_store # "None" /\ retriever # "None" /\ chatbot # "None"

SessionCleared ==
    /\ ~documents_loaded
    /\ vector_store = "None"
    /\ retriever = "None"
    /\ chatbot = "None"
    /\ chat_history = <<>>
    /\ processed_files = <<>>

\* C29: after any sequence of process_documents, load_existing_database,
\* clear_database and questions, those that fail part-way included,
\* documents_loaded is true only if vector_store, retriever and chatbot are
\* all set; and after a clear_database that completes, documents_loaded is
\* false and vector_store, retriever, chatbot, chat_history and
\* processed_files are empty.
C29_SessionConsistent ==
    /\ documents_loaded => SessionObjectsSet
    /\ (handled.fn = "clear_database" /\ handled.completed) => SessionCleared

\* process_documents stored the index and then failed to build the chatbot
C29_Witness ==
    /\ Processed
    /\ fault = "ChatBot"
    /\ vector_store # "None"
    /\ retriever # "None"
    /\ chatbot = "None"
    /\ ~documents_loaded

\* the role of the i-th message of the history
RoleAt(i) == IF i % 2 = 1 THEN "user" ELSE "assistant"

\* C30: every question submitted to the chat loop appends one user message
\* and then one assistant message (the answer, or a visible error message when
\* the pipeline raises) to chat_history, so the history alternates
\* user/assistant and has even length after every handled question.
C30_HistoryAlternates ==
    /\ Len(chat_history) % 2 = 0
    /\ \A i \in 1..Len(chat_history) :
           /\ chat_history[i].role = RoleAt(i)
           /\ chat_history[i].content # ""
    /\ (handled.fn = "chat_input" /\ fault = "chat_with_retrieval") =>
           LET last == chat_history[Len(chat_history)]
           IN  SubSeq(last.content, 1, Len(ERROR_PREFIX)) = ERROR_PREFIX

\* two questions handled, one answered and one that raised
C30_Witness ==
    /\ handled.fn = "chat_input"
    /\ fault = "chat_with_retrieval"
    /\ Len(chat_history) = 4
    /\ "sources" \in DOMAIN chat_history[2]
    /\ "sources" \notin DOMAIN chat_history[4]

====
